---- MODULE Spec2Model ----
(***************************************************************************)
(* A model of l20n/parser.py: the recursive-descent parser of the L20n     *)
(* resource language.                                                      *)
(*                                                                         *)
(* Text is a sequence of one-character strings.  A Parser object is the    *)
(* record [content, parse_strings] (self.content, self._parse_strings).    *)
(* Every method get_x of the class is the operator get_x: it takes the     *)
(* Parser object and returns [st, self, v]: how the call ended (st), the   *)
(* Parser object as the call left it (self), and the value returned (v).   *)
(*   st = "ok"           the call returned v                               *)
(*   st = "ParserError"  the call raised ParserError                       *)
(*   st = "IndexError"   the call raised IndexError (self.content[i] past  *)
(*                       the end of the string)                            *)
(*   st = "NoReturn"     the call never returns (a loop repeats an         *)
(*                       iteration that changes nothing)                   *)
(* AST nodes are records with a type field; Python lists of nodes are      *)
(* List(<<...>>) records and Python's None is the record None, so that a   *)
(* field holds records in every case.                                      *)
(***************************************************************************)
EXTENDS Integers, Sequences, FiniteSets, TLC

VARIABLES parser, instance, pc, local, ret, doc

(***************************************************************************)
(* Characters.                                                             *)
(***************************************************************************)
\* string.whitespace; "VT" stands for the vertical tab, chr(11)
wschars == {" ", "\t", "\n", "\r", "VT", "\f"}

\* str.isdigit
digits == {"0", "1", "2", "3", "4", "5", "6", "7", "8", "9"}

\* [a-zA-Z] of patterns['id']
letters ==
    {"a", "b", "c", "d", "e", "f", "g", "h", "i", "j", "k", "l", "m",
     "n", "o", "p", "q", "r", "s", "t", "u", "v", "w", "x", "y", "z",
     "A", "B", "C", "D", "E", "F", "G", "H", "I", "J", "K", "L", "M",
     "N", "O", "P", "Q", "R", "S", "T", "U", "V", "W", "X", "Y", "Z"}

\* \w of patterns['id']
wordchars == letters \cup digits \cup {"_"}

(***************************************************************************)
(* Python's string operations.                                             *)
(***************************************************************************)
Min(a, b) == IF a < b THEN a ELSE b

Max(a, b) == IF a > b THEN a ELSE b

\* s[i:j] for 0 <= i, 0 <= j: never raises, a short string gives a short slice
Slice(s, i, j) == SubSeq(s, i + 1, Min(j, Len(s)))

\* s[n:] for 0 <= n
Drop(s, n) == SubSeq(s, n + 1, Len(s))

\* s[:k] for any integer k: a negative k counts from the end, and s[:0] is ''
SliceTo(s, k) == IF k < 0 THEN SubSeq(s, 1, Max(Len(s) + k, 0)) ELSE SubSeq(s, 1, Min(k, Len(s)))

\* the length of the longest prefix of s whose characters are all in cs
RECURSIVE Span(_, _)
Span(s, cs) == IF s # <<>> /\ Head(s) \in cs THEN 1 + Span(Tail(s), cs) ELSE 0

\* s.lstrip()
lstrip(s) == Drop(s, Span(s, wschars))

\* int(s) for a string of decimal digits
DigitValue(c) ==
    CASE c = "0" -> 0 [] c = "1" -> 1 [] c = "2" -> 2 [] c = "3" -> 3 [] c = "4" -> 4
      [] c = "5" -> 5 [] c = "6" -> 6 [] c = "7" -> 7 [] c = "8" -> 8 [] c = "9" -> 9

RECURSIVE int(_)
int(s) == IF s = <<>> THEN 0 ELSE 10 * int(SubSeq(s, 1, Len(s) - 1)) + DigitValue(s[Len(s)])

\* the characters of s
Range(s) == {s[i] : i \in 1..Len(s)}

\* the least i >= from with s[i:i+len(sep)] == sep (0-based), or -1: s.find(sep, from)
RECURSIVE find(_, _, _)
find(s, sep, from) ==
    IF from + Len(sep) > Len(s) THEN -1
    ELSE IF Slice(s, from, from + Len(sep)) = sep THEN from
    ELSE find(s, sep, from + 1)

(***************************************************************************)
(* AST nodes (l20n.ast) and call results.                                  *)
(***************************************************************************)
None == [type |-> "None"]

List(items) == [type |-> "list", items |-> items]

Ok(self, v) == [st |-> "ok", self |-> self, v |-> v]

Raise(exc, self) == [st |-> exc, self |-> self, v |-> None]

\* self.content = self.content[n:]
Advance(self, n) == [self EXCEPT !.content = Drop(@, n)]

(***************************************************************************)
(* Parser.get_ws                                                           *)
(***************************************************************************)
get_ws(self) ==
    IF self.content = <<>> THEN Ok(self, <<>>)
    ELSE IF self.content[1] \notin wschars THEN Ok(self, <<>>)
    ELSE LET content == lstrip(self.content)
             ws == SliceTo(self.content, Len(content) * (-1))
         IN  Ok([self EXCEPT !.content = content], ws)

(***************************************************************************)
(* Parser.get_identifier                                                   *)
(***************************************************************************)
get_identifier(self) ==
    IF self.content = <<>> \/ Head(self.content) \notin letters
    THEN Raise("ParserError", self)
    ELSE LET end == 1 + Span(Tail(self.content), wordchars)
         IN  Ok(Advance(self, end), [type |-> "Identifier", name |-> Slice(self.content, 0, end)])

(***************************************************************************)
(* The productions call one another through Call: Call(m, self, args) is   *)
(* the method call self.m(args...).                                        *)
(***************************************************************************)
RECURSIVE Call(_, _, _)

\* r, and then K(r) unless r is an exception: no production catches one
Then(r, K(_)) == IF r.st # "ok" THEN r ELSE K(r)

\* self.content[0], passed to K: an IndexError when nothing is left
First(self, K(_)) == IF self.content = <<>> THEN Raise("IndexError", self) ELSE K(self.content[1])

(***************************************************************************)
(* Parser.get_value                                                        *)
(***************************************************************************)
\* patterns['value'] on s: the index of the closing quote, the first one like
\* s[0] that no backslash precedes and no newline comes before, or -1
RECURSIVE value_end(_, _)
value_end(s, i) ==
    IF i >= Len(s) THEN -1
    ELSE IF s[i + 1] = s[1] /\ s[i] # "\\" THEN i
    ELSE IF s[i + 1] = "\n" THEN -1
    ELSE value_end(s, i + 1)

get_string(self) ==
    LET end == IF self.content = <<>> \/ self.content[1] \notin {"\"", "'"} THEN -1
               ELSE value_end(self.content, 1)
    IN  IF end = -1 THEN Raise("ParserError", self)
        ELSE Ok(Advance(self, end + 1), [type |-> "String", content |-> Slice(self.content, 1, end)])

get_value(self, none) ==
    First(self, LAMBDA c :
        IF c \in {"\"", "'"}
        THEN IF self.parse_strings THEN Call("get_complex_string", self, <<>>)
             ELSE Call("get_string", self, <<>>)
        ELSE IF c = "[" THEN Call("get_array", self, <<>>)
        ELSE IF c = "{" THEN Call("get_hash", self, <<>>)
        ELSE IF none THEN Ok(self, None)
        ELSE Raise("ParserError", self))

(***************************************************************************)
(* Parser.get_complex_string                                               *)
(***************************************************************************)
\* literal.match(self.content) for literal = '^([^\\{%s]+)' % str_end: the
\* length of the match, 0 for no match
literal_match(s, str_end) == Span(s, {c \in Range(s) : c \notin {"{", str_end}})

\* one iteration of the while loop (lines 152-162), entered with
\* self.content[0] != str_end; v is obj after the iteration
complex_string_body(self, obj, str_end) ==
    Then(IF Slice(self.content, 0, 2) = <<"{", "{">>
         THEN Then(Call("get_expression", Advance(self, 2), <<>>), LAMBDA e :
                  IF Slice(e.self.content, 0, 2) # <<"}", "}">> THEN Raise("ParserError", e.self)
                  ELSE Ok(Advance(e.self, 2), Append(obj, e.v)))
         ELSE Ok(self, obj),
         LAMBDA r :
             IF literal_match(r.self.content, str_end) > 0
             THEN Ok(Advance(r.self, literal_match(r.self.content, str_end)),
                     Append(r.v, [type |-> "String",
                                  content |-> Slice(r.self.content, 0,
                                                    literal_match(r.self.content, str_end))]))
             ELSE r)

\* the while loop (line 149): an iteration that leaves self.content and obj as
\* they were is followed by the same iteration, for ever
RECURSIVE complex_string_loop(_, _, _)
complex_string_loop(self, obj, str_end) ==
    First(self, LAMBDA c :
        IF c = str_end THEN Ok(self, obj)
        ELSE Then(complex_string_body(self, obj, str_end), LAMBDA r :
                 IF r.self = self /\ r.v = obj THEN Raise("NoReturn", self)
                 ELSE complex_string_loop(r.self, r.v, str_end)))

\* lines 163-166
complex_string_result(self, obj) ==
    Ok(Advance(self, 1),
       IF Len(obj) = 1 /\ obj[1].type = "String" THEN obj[1]
       ELSE [type |-> "ComplexString", items |-> obj])

get_complex_string(self) ==
    First(self, LAMBDA str_end :
        Then(complex_string_loop(Advance(self, 1), <<>>, str_end), LAMBDA r :
            complex_string_result(r.self, r.v)))

(***************************************************************************)
(* Parser.get_array, Parser.get_hash, Parser.get_kvp                       *)
(***************************************************************************)
\* the while loop of get_array (lines 175-184) and lines 185-186
RECURSIVE array_loop(_, _)
array_loop(self, array) ==
    Then(Call("get_value", self, <<FALSE>>), LAMBDA r :
        Then(get_ws(r.self), LAMBDA w :
            First(w.self, LAMBDA c :
                IF c = "," THEN array_loop(get_ws(Advance(w.self, 1)).self, Append(array, r.v))
                ELSE IF c = "]"
                THEN Ok(Advance(w.self, 1), [type |-> "Array", items |-> Append(array, r.v)])
                ELSE Raise("ParserError", w.self))))

get_array(self) ==
    Then(get_ws(Advance(self, 1)), LAMBDA w :
        First(w.self, LAMBDA c :
            IF c = "]" THEN Ok(Advance(w.self, 1), [type |-> "Array", items |-> <<>>])
            ELSE array_loop(w.self, <<>>)))

get_kvp(self) ==
    Then(get_identifier(self), LAMBDA key :
        Then(get_ws(key.self), LAMBDA ws2 :
            First(ws2.self, LAMBDA c :
                IF c # ":" THEN Raise("ParserError", ws2.self)
                ELSE Then(Call("get_value", get_ws(Advance(ws2.self, 1)).self, <<FALSE>>), LAMBDA val :
                         Ok(val.self, [type |-> "KeyValuePair", key |-> key.v, value |-> val.v])))))

\* the while loop of get_hash (lines 195-205) and lines 206-207
RECURSIVE hash_loop(_, _)
hash_loop(self, hash) ==
    Then(Call("get_kvp", self, <<>>), LAMBDA kvp :
        Then(get_ws(kvp.self), LAMBDA w :
            First(w.self, LAMBDA c :
                IF c = "," THEN hash_loop(get_ws(Advance(w.self, 1)).self, Append(hash, kvp.v))
                ELSE IF c = "}"
                THEN Ok(Advance(w.self, 1), [type |-> "Hash", items |-> Append(hash, kvp.v)])
                ELSE Raise("ParserError", w.self))))

get_hash(self) ==
    Then(get_ws(Advance(self, 1)), LAMBDA w :
        First(w.self, LAMBDA c :
            IF c = "}" THEN Ok(Advance(w.self, 1), [type |-> "Hash", items |-> <<>>])
            ELSE hash_loop(w.self, <<>>)))

(***************************************************************************)
(* Parser.get_expression .. Parser.get_unary_expression                    *)
(***************************************************************************)
get_expression(self) == Call("get_conditional_expression", self, <<>>)

get_conditional_expression(self) ==
    Then(Call("get_or_expression", self, <<>>), LAMBDA or_expression :
        Then(get_ws(or_expression.self), LAMBDA w1 :
            First(w1.self, LAMBDA c1 :
                IF c1 # "?" THEN Ok(w1.self, or_expression.v)
                ELSE Then(Call("get_expression", get_ws(Advance(w1.self, 1)).self, <<>>), LAMBDA consequent :
                     Then(get_ws(consequent.self), LAMBDA w2 :
                     First(w2.self, LAMBDA c2 :
                         IF c2 # ":" THEN Raise("ParserError", w2.self)
                         ELSE Then(Call("get_expression", get_ws(Advance(w2.self, 1)).self, <<>>), LAMBDA alternate :
                                  Ok(get_ws(alternate.self).self,
                                     [type |-> "ConditionalExpression", test |-> or_expression.v,
                                      consequent |-> consequent.v, alternate |-> alternate.v]))))))))

\* the while loop of get_prefix_expression (lines 282-289) and line 290
RECURSIVE prefix_loop(_, _, _, _, _, _, _)
prefix_loop(self, exp, token, token_length, cl, op, nxt) ==
    IF Slice(self.content, 0, token_length) \notin token THEN Ok(self, exp)
    ELSE Then(Call(nxt, get_ws(Advance(self, token_length)).self, <<>>), LAMBDA r :
             prefix_loop(get_ws(r.self).self,
                         [type |-> cl,
                          operator |-> [type |-> op, token |-> Slice(self.content, 0, token_length)],
                          left |-> exp, right |-> r.v],
                         token, token_length, cl, op, nxt))

get_prefix_expression(self, token, token_length, cl, op, nxt) ==
    Then(Call(nxt, self, <<>>), LAMBDA exp :
        prefix_loop(get_ws(exp.self).self, exp.v, token, token_length, cl, op, nxt))

\* token.match(self.content) for token = re.compile('^[<>]=?'): the length of
\* the match, 0 for no match
relational_match(s) ==
    IF s = <<>> \/ s[1] \notin {"<", ">"} THEN 0
    ELSE IF Len(s) >= 2 /\ s[2] = "=" THEN 2
    ELSE 1

\* the while loop of get_prefix_expression_re (lines 296-303) and line 304
RECURSIVE prefix_loop_re(_, _, _, _, _)
prefix_loop_re(self, exp, cl, op, nxt) ==
    IF relational_match(self.content) = 0 THEN Ok(self, exp)
    ELSE Then(Call(nxt, get_ws(Advance(self, relational_match(self.content))).self, <<>>), LAMBDA r :
             prefix_loop_re(get_ws(r.self).self,
                            [type |-> cl,
                             operator |-> [type |-> op,
                                           token |-> Slice(self.content, 0, relational_match(self.content))],
                             left |-> exp, right |-> r.v],
                            cl, op, nxt))

get_prefix_expression_re(self, cl, op, nxt) ==
    Then(Call(nxt, self, <<>>), LAMBDA exp :
        prefix_loop_re(get_ws(exp.self).self, exp.v, cl, op, nxt))

RECURSIVE get_postfix_expression(_, _, _, _, _, _)
get_postfix_expression(self, token, token_length, cl, op, nxt) ==
    First(self, LAMBDA t :
        IF <<t>> \notin token THEN Call(nxt, self, <<>>)
        ELSE Then(get_postfix_expression(get_ws(Advance(self, 1)).self, token, token_length, cl, op, nxt),
                  LAMBDA r : Ok(r.self, [type |-> cl, operator |-> [type |-> op, token |-> <<t>>],
                                         argument |-> r.v])))

get_or_expression(self) ==
    get_prefix_expression(self, {<<"|", "|">>}, 2,
                          "LogicalExpression", "LogicalOperator", "get_and_expression")

get_and_expression(self) ==
    get_prefix_expression(self, {<<"&", "&">>}, 2,
                          "LogicalExpression", "LogicalOperator", "get_equality_expression")

get_equality_expression(self) ==
    get_prefix_expression(self, {<<"=", "=">>, <<"!", "=">>}, 2,
                          "BinaryExpression", "BinaryOperator", "get_relational_expression")

get_relational_expression(self) ==
    get_prefix_expression_re(self, "BinaryExpression", "BinaryOperator", "get_additive_expression")

get_additive_expression(self) ==
    get_prefix_expression(self, {<<"+">>, <<"-">>}, 1,
                          "BinaryExpression", "BinaryOperator", "get_modulo_expression")

\* get_modulo_expression handing on to get_dividive_expression: the level of *
\* is left out of the chain
get_modulo_expression_skip(self) ==
    get_prefix_expression(self, {<<"%">>}, 1,
                          "BinaryExpression", "BinaryOperator", "get_dividive_expression")

get_modulo_expression(self) ==
    get_prefix_expression(self, {<<"%">>}, 1,
                          "BinaryExpression", "BinaryOperator", "get_multiplicative_expression")

get_multiplicative_expression(self) ==
    get_prefix_expression(self, {<<"*">>}, 1,
                          "BinaryExpression", "BinaryOperator", "get_dividive_expression")

get_dividive_expression(self) ==
    get_prefix_expression(self, {<<"/">>}, 1,
                          "BinaryExpression", "BinaryOperator", "get_unary_expression")

get_unary_expression(self) ==
    get_postfix_expression(self, {<<"+">>, <<"-">>, <<"!">>}, 1,
                           "UnaryExpression", "UnaryOperator", "get_member_expression")

(***************************************************************************)
(* Parser.get_member_expression .. Parser.get_call_expression              *)
(***************************************************************************)
\* the while loop of get_member_expression (lines 373-381) and line 382
RECURSIVE member_loop(_, _)
member_loop(self, exp) ==
    IF Slice(self.content, 0, 2) \in {<<"[", ".">>, <<".", ".">>}
    THEN Then(Call("get_attr_expression", self, <<exp>>), LAMBDA r : member_loop(r.self, r.v))
    ELSE First(self, LAMBDA c :
             IF c \in {"[", "."}
             THEN Then(Call("get_property_expression", self, <<exp>>), LAMBDA r : member_loop(r.self, r.v))
             ELSE IF c = "("
             THEN Then(Call("get_call_expression", self, <<exp>>), LAMBDA r : member_loop(r.self, r.v))
             ELSE Ok(self, exp))

get_member_expression(self) ==
    Then(Call("get_parenthesis_expression", self, <<>>), LAMBDA exp :
        member_loop(get_ws(exp.self).self, exp.v))

get_parenthesis_expression(self) ==
    First(self, LAMBDA c :
        IF c = "("
        THEN Then(Call("get_expression", get_ws(Advance(self, 1)).self, <<>>), LAMBDA pexp :
                 Then(get_ws(pexp.self), LAMBDA w :
                     First(w.self, LAMBDA d :
                         IF d # ")" THEN Raise("ParserError", w.self)
                         ELSE Ok(Advance(w.self, 1),
                                 [type |-> "ParenthesisExpression", expression |-> pexp.v]))))
        ELSE Call("get_primary_expression", self, <<>>))

get_primary_expression(self) ==
    LET ptr == Span(self.content, digits)
    IN  IF ptr = Len(self.content) THEN Raise("IndexError", self)
        ELSE IF ptr # 0
        THEN Ok(Advance(self, ptr), [type |-> "Literal", value |-> int(Slice(self.content, 0, ptr))])
        ELSE IF self.content[1] \in {"\"", "'", "{", "["} THEN Call("get_value", self, <<FALSE>>)
        ELSE get_identifier(self)

get_attr_expression(self, idref) ==
    IF Slice(self.content, 0, 2) = <<"[", ".">>
    THEN Then(Call("get_expression", get_ws(Advance(self, 2)).self, <<>>), LAMBDA exp :
             Ok(Advance(get_ws(exp.self).self, 1),
                [type |-> "AttributeExpression", expression |-> idref,
                 attribute |-> exp.v, computed |-> TRUE]))
    ELSE IF Slice(self.content, 0, 2) = <<".", ".">>
    THEN Then(get_identifier(Advance(self, 2)), LAMBDA prop :
             Ok(prop.self, [type |-> "AttributeExpression", expression |-> idref,
                            attribute |-> prop.v, computed |-> FALSE]))
    ELSE Raise("ParserError", self)

get_property_expression(self, idref) ==
    First(self, LAMBDA d :
        IF d = "["
        THEN Then(Call("get_expression", get_ws(Advance(self, 1)).self, <<>>), LAMBDA exp :
                 Ok(Advance(get_ws(exp.self).self, 1),
                    [type |-> "PropertyExpression", expression |-> idref,
                     property |-> exp.v, computed |-> TRUE]))
        ELSE IF d = "."
        THEN Then(get_identifier(Advance(self, 1)), LAMBDA prop :
                 Ok(prop.self, [type |-> "PropertyExpression", expression |-> idref,
                                property |-> prop.v, computed |-> FALSE]))
        ELSE Raise("ParserError", self))

\* the while loop of get_call_expression (lines 450-460) and lines 461-462
RECURSIVE call_loop(_, _)
call_loop(self, mcall) ==
    Then(Call("get_expression", self, <<>>), LAMBDA exp :
        Then(get_ws(exp.self), LAMBDA w :
            First(w.self, LAMBDA c :
                IF c = ","
                THEN call_loop(get_ws(Advance(w.self, 1)).self,
                               [mcall EXCEPT !.arguments = Append(@, exp.v)])
                ELSE IF c = ")"
                THEN Ok(Advance(w.self, 1), [mcall EXCEPT !.arguments = Append(@, exp.v)])
                ELSE Raise("ParserError", w.self))))

get_call_expression(self, callee) ==
    Then(get_ws(Advance(self, 1)), LAMBDA w :
        First(w.self, LAMBDA c :
            IF c = ")"
            THEN Ok(Advance(w.self, 1), [type |-> "CallExpression", callee |-> callee, arguments |-> <<>>])
            ELSE call_loop(w.self, [type |-> "CallExpression", callee |-> callee, arguments |-> <<>>])))

(***************************************************************************)
(* Parser.get_entry and the entries                                        *)
(***************************************************************************)
\* the while loop of get_attributes (lines 224-232) and line 233
RECURSIVE attributes_loop(_, _)
attributes_loop(self, hash) ==
    Then(Call("get_kvp", self, <<>>), LAMBDA kvp :
        Then(get_ws(kvp.self), LAMBDA ws2 :
            First(ws2.self, LAMBDA c :
                IF c = ">" THEN Ok(Advance(ws2.self, 1), List(Append(hash, kvp.v)))
                ELSE IF ws2.v = <<>> THEN Raise("ParserError", ws2.self)
                ELSE attributes_loop(ws2.self, Append(hash, kvp.v)))))

get_attributes(self) ==
    First(self, LAMBDA c :
        IF c = ">" THEN Ok(Advance(self, 1), None)
        ELSE attributes_loop(self, <<>>))

\* the while loop of get_index (lines 242-252) and lines 253-254
RECURSIVE index_loop(_, _)
index_loop(self, index) ==
    Then(Call("get_expression", self, <<>>), LAMBDA expression :
        Then(get_ws(expression.self), LAMBDA w :
            First(w.self, LAMBDA c :
                IF c = "," THEN index_loop(get_ws(Advance(w.self, 1)).self, Append(index, expression.v))
                ELSE IF c = "]" THEN Ok(Advance(w.self, 1), List(Append(index, expression.v)))
                ELSE Raise("ParserError", w.self))))

get_index(self) ==
    Then(get_ws(Advance(self, 1)), LAMBDA w :
        First(w.self, LAMBDA c :
            IF c = "]" THEN Ok(Advance(w.self, 1), List(<<>>))
            ELSE index_loop(w.self, <<>>)))

\* "<%%s%s%%s%%s%%s>" % ws1
template1(ws1) == <<"<", "%", "s">> \o ws1 \o <<"%", "s", "%", "s", "%", "s", ">">>

\* "<%%s%%s%s%%s%s%%s>" % (ws1, ws2)
template2(ws1, ws2) == <<"<", "%", "s", "%", "s">> \o ws1 \o <<"%", "s">> \o ws2 \o <<"%", "s", ">">>

\* get_entity without lines 72-73: a value is taken although no whitespace
\* separates it from the identifier
get_entity_unspaced(self, id, index) ==
    Then(get_ws(self), LAMBDA ws1 :
        First(ws1.self, LAMBDA c :
            IF c = ">"
            THEN Ok(Advance(ws1.self, 1),
                    [type |-> "Entity", id |-> id, index |-> index, value |-> None, attrs |-> None,
                     template |-> template1(ws1.v)])
            ELSE Then(Call("get_value", ws1.self, <<TRUE>>), LAMBDA value :
                 Then(get_ws(value.self), LAMBDA ws2 :
                 Then(Call("get_attributes", ws2.self, <<>>), LAMBDA attrs :
                     Ok(attrs.self,
                        [type |-> "Entity", id |-> id, index |-> index, value |-> value.v,
                         attrs |-> attrs.v, template |-> template2(ws1.v, ws2.v)]))))))

get_entity(self, id, index) ==
    Then(get_ws(self), LAMBDA ws1 :
        First(ws1.self, LAMBDA c :
            IF c = ">"
            THEN Ok(Advance(ws1.self, 1),
                    [type |-> "Entity", id |-> id, index |-> index, value |-> None, attrs |-> None,
                     template |-> template1(ws1.v)])
            ELSE IF ws1.v = <<>> THEN Raise("ParserError", ws1.self)
            ELSE Then(Call("get_value", ws1.self, <<TRUE>>), LAMBDA value :
                 Then(get_ws(value.self), LAMBDA ws2 :
                 Then(Call("get_attributes", ws2.self, <<>>), LAMBDA attrs :
                     Ok(attrs.self,
                        [type |-> "Entity", id |-> id, index |-> index, value |-> value.v,
                         attrs |-> attrs.v, template |-> template2(ws1.v, ws2.v)]))))))

\* the while loop of get_macro (lines 91-101)
RECURSIVE idlist_loop(_, _)
idlist_loop(self, idlist) ==
    Then(get_identifier(self), LAMBDA id :
        Then(get_ws(id.self), LAMBDA w :
            First(w.self, LAMBDA c :
                IF c = "," THEN idlist_loop(get_ws(Advance(w.self, 1)).self, Append(idlist, id.v))
                ELSE IF c = ")" THEN Ok(Advance(w.self, 1), Append(idlist, id.v))
                ELSE Raise("ParserError", w.self))))

\* lines 85-101 of get_macro: v is idlist
get_macro_idlist(self) ==
    Then(get_ws(Advance(self, 1)), LAMBDA w :
        First(w.self, LAMBDA c :
            IF c = ")" THEN Ok(Advance(w.self, 1), <<>>)
            ELSE idlist_loop(w.self, <<>>)))

get_macro(self, id) ==
    Then(get_macro_idlist(self), LAMBDA idlist :
    Then(get_ws(idlist.self), LAMBDA ws :
        IF ws.v = <<>> THEN Raise("ParserError", ws.self)
        ELSE First(ws.self, LAMBDA c :
            IF c # "{" THEN Raise("ParserError", ws.self)
            ELSE Then(Call("get_expression", Advance(ws.self, 1), <<>>), LAMBDA exp :
                 Then(get_ws(exp.self), LAMBDA w :
                 First(w.self, LAMBDA d :
                     IF d # "}" THEN Raise("ParserError", w.self)
                     ELSE Then(Call("get_attributes", get_ws(Advance(w.self, 1)).self, <<>>), LAMBDA attrs :
                              Ok(attrs.self,
                                 [type |-> "Macro", id |-> id, args |-> idlist.v,
                                  expression |-> exp.v, attrs |-> attrs.v]))))))))

\* s.partition(sep): where sep starts in s, the index past the end of s when
\* it is not there
partition(s, sep) == IF find(s, sep, 0) = -1 THEN Len(s) ELSE find(s, sep, 0)

get_comment(self) ==
    IF partition(Drop(self.content, 2), <<"*", "/">>) = Len(Drop(self.content, 2))
    THEN Raise("ParserError", [self EXCEPT !.content = <<>>])
    ELSE Ok([self EXCEPT !.content = Drop(@, 2 + partition(Drop(self.content, 2), <<"*", "/">>) + 2)],
            [type |-> "Comment",
             content |-> Slice(Drop(self.content, 2), 0, partition(Drop(self.content, 2), <<"*", "/">>))])

get_entry(self) ==
    First(self, LAMBDA c :
        IF c = "<"
        THEN Then(get_identifier(Advance(self, 1)), LAMBDA id :
                 First(id.self, LAMBDA d :
                     IF d = "(" THEN Call("get_macro", id.self, <<id.v>>)
                     ELSE IF d = "["
                     THEN Then(Call("get_index", id.self, <<>>), LAMBDA index :
                              Call("get_entity", index.self, <<id.v, index.v>>))
                     ELSE Call("get_entity", id.self, <<id.v, None>>)))
        ELSE IF Slice(self.content, 0, 2) = <<"/", "*">> THEN Call("get_comment", self, <<>>)
        ELSE Raise("ParserError", self))

(***************************************************************************)
(* self.m(args...): the call of method m of the Parser object.             *)
(***************************************************************************)
Call(m, self, args) ==
    CASE m = "get_entry" -> get_entry(self)
      [] m = "get_entity" -> get_entity(self, args[1], args[2])
      [] m = "get_macro" -> get_macro(self, args[1])
      [] m = "get_value" -> get_value(self, args[1])
      [] m = "get_string" -> get_string(self)
      [] m = "get_complex_string" -> get_complex_string(self)
      [] m = "get_array" -> get_array(self)
      [] m = "get_hash" -> get_hash(self)
      [] m = "get_kvp" -> get_kvp(self)
      [] m = "get_attributes" -> get_attributes(self)
      [] m = "get_index" -> get_index(self)
      [] m = "get_expression" -> get_expression(self)
      [] m = "get_conditional_expression" -> get_conditional_expression(self)
      [] m = "get_or_expression" -> get_or_expression(self)
      [] m = "get_and_expression" -> get_and_expression(self)
      [] m = "get_equality_expression" -> get_equality_expression(self)
      [] m = "get_relational_expression" -> get_relational_expression(self)
      [] m = "get_additive_expression" -> get_additive_expression(self)
      [] m = "get_modulo_expression" -> get_modulo_expression(self)
      [] m = "get_multiplicative_expression" -> get_multiplicative_expression(self)
      [] m = "get_dividive_expression" -> get_dividive_expression(self)
      [] m = "get_unary_expression" -> get_unary_expression(self)
      [] m = "get_member_expression" -> get_member_expression(self)
      [] m = "get_parenthesis_expression" -> get_parenthesis_expression(self)
      [] m = "get_primary_expression" -> get_primary_expression(self)
      [] m = "get_attr_expression" -> get_attr_expression(self, args[1])
      [] m = "get_property_expression" -> get_property_expression(self, args[1])
      [] m = "get_call_expression" -> get_call_expression(self, args[1])
      [] m = "get_comment" -> get_comment(self)

(***************************************************************************)
(* Parser.parse                                                            *)
(***************************************************************************)
\* lines 16-21: v is lol
parse_begin(self, content) ==
    LET w == get_ws([self EXCEPT !.content = content, !.parse_strings = TRUE])
    IN  Ok(w.self, [struct |-> TRUE, body |-> <<>>, template |-> <<w.v>>])

\* parse_step without line 27: the whitespace after the entry is skipped and
\* not recorded
parse_step_no_fragment(self, lol) ==
    Then(Call("get_entry", self, <<>>), LAMBDA e :
        Then(get_ws(e.self), LAMBDA w :
            Ok(w.self, [lol EXCEPT !.body = Append(@, e.v)])))

\* lines 24-27, one iteration of the while loop: v is lol
parse_step(self, lol) ==
    Then(Call("get_entry", self, <<>>), LAMBDA e :
        Then(get_ws(e.self), LAMBDA w :
            Ok(w.self, [lol EXCEPT !.body = Append(@, e.v), !.template = Append(@, w.v)])))

\* the while loop (line 22) and the return (line 28)
RECURSIVE parse_loop(_, _)
parse_loop(self, lol) ==
    IF self.content = <<>> THEN Ok(self, lol)
    ELSE Then(parse_step(self, lol), LAMBDA r : parse_loop(r.self, r.v))

\* one call of parse that no other call interleaves with
parse(self, content) ==
    Then(parse_begin(self, content), LAMBDA b : parse_loop(b.self, b.v))

(***************************************************************************)
(* The state: the Parser objects and the threads that call them.           *)
(*   parser[p]    the fields of Parser object p                            *)
(*   instance[t]  the Parser object thread t calls                         *)
(*   pc[t]        where thread t is                                        *)
(*   local[t]     its local variables                                      *)
(*   ret[t]       how its call ended, [st, v]                              *)
(*   doc[t]       the text it passes: parse's argument, or the cursor the  *)
(*                method it calls starts from                              *)
(***************************************************************************)
Threads == {"t1", "t2"}

Parsers == {"p1", "p2"}

\* a Parser object after construction: parse has not set self.content yet
NewParser == [content |-> <<>>, parse_strings |-> FALSE]

NoResult == [st |-> "none", v |-> None]

vars == <<parser, instance, pc, local, ret, doc>>

\* the concatenation of the first n texts of ts
RECURSIVE Concat(_, _)
Concat(ts, n) == IF n = 0 THEN <<>> ELSE Concat(ts, n - 1) \o ts[n]

\* the texts made of at most n pieces, each from the set pieces
Texts(pieces, n) == UNION {{Concat(f, k) : f \in [1..k -> pieces]} : k \in 0..n}

\* thread t ends its call as r says
End(t, r, done) ==
    /\ parser' = [parser EXCEPT ![instance[t]] = r.self]
    /\ pc' = [pc EXCEPT ![t] = IF r.st = "ok" THEN done ELSE IF r.st = "NoReturn" THEN "looping" ELSE "raised"]
    /\ ret' = [ret EXCEPT ![t] = [st |-> r.st, v |-> r.v]]

(***************************************************************************)
(* parse, step by step: Spec is one thread parsing one document.           *)
(***************************************************************************)
MaxDocPieces == 4

DocPieces ==
    {<<"<", "a">>, <<">">>, <<" ">>, <<"\n">>, <<"\"", "x", "\"">>, <<"\"">>, <<"/", "*", "*", "/">>}

Docs == Texts(DocPieces, MaxDocPieces)

\* lines 16-21
Parse(t) ==
    /\ pc[t] = "idle"
    /\ LET b == parse_begin(parser[instance[t]], doc[t])
       IN  /\ parser' = [parser EXCEPT ![instance[t]] = b.self]
           /\ local' = [local EXCEPT ![t] = b.v]
    /\ pc' = [pc EXCEPT ![t] = "while"]
    /\ UNCHANGED <<instance, ret, doc>>

\* lines 22-27: an iteration of the while loop that get_entry returns from
ParseEntry(t) ==
    /\ pc[t] = "while"
    /\ parser[instance[t]].content # <<>>
    /\ LET r == parse_step(parser[instance[t]], local[t])
       IN  /\ r.st = "ok"
           /\ parser' = [parser EXCEPT ![instance[t]] = r.self]
           /\ local' = [local EXCEPT ![t] = r.v]
    /\ UNCHANGED <<instance, pc, ret, doc>>

\* lines 22-24: get_entry raises, or never returns; parse catches nothing
ParseRaise(t) ==
    /\ pc[t] = "while"
    /\ parser[instance[t]].content # <<>>
    /\ LET r == parse_step(parser[instance[t]], local[t])
       IN  /\ r.st # "ok"
           /\ End(t, r, "returned")
    /\ UNCHANGED <<instance, local, doc>>

\* lines 22 and 28
ParseReturn(t) ==
    /\ pc[t] = "while"
    /\ parser[instance[t]].content = <<>>
    /\ End(t, Ok(parser[instance[t]], local[t]), "returned")
    /\ UNCHANGED <<instance, local, doc>>

ParseNext(t) == Parse(t) \/ ParseEntry(t) \/ ParseRaise(t) \/ ParseReturn(t)

Init ==
    /\ parser = [p \in Parsers |-> NewParser]
    /\ instance = [t \in Threads |-> IF t = "t1" THEN "p1" ELSE "p2"]
    /\ pc = [t \in Threads |-> IF t = "t1" THEN "idle" ELSE "off"]
    /\ local = [t \in Threads |-> None]
    /\ ret = [t \in Threads |-> NoResult]
    /\ \E d \in Docs : doc = [t \in Threads |-> IF t = "t1" THEN d ELSE <<>>]

Next == Parse("t1") \/ ParseEntry("t1") \/ ParseRaise("t1") \/ ParseReturn("t1")

Spec == Init /\ [][Next]_vars

(***************************************************************************)
(* What a document's whitespace is, read off the text alone.               *)
(***************************************************************************)
Reverse(s) == [i \in 1..Len(s) |-> s[Len(s) + 1 - i]]

\* the maximal run of whitespace s starts with
LeadingWs(s) == SubSeq(s, 1, Span(s, wschars))

\* the maximal run of whitespace s ends with
TrailingWs(s) == SubSeq(s, Len(s) - Span(Reverse(s), wschars) + 1, Len(s))

(***************************************************************************)
(* Properties of parse, under Spec.                                        *)
(***************************************************************************)
\* C1: when parse returns a root, its fragment 0 is the whitespace the
\* document starts with and its last fragment is the whitespace the document
\* ends with (after the final entry), verbatim: what regenerating the
\* document from the root needs.
C1_FragmentsVerbatim ==
    \A t \in Threads :
        (pc[t] = "returned" /\ ret[t].st = "ok") =>
            /\ ret[t].v.template[1] = LeadingWs(doc[t])
            /\ ret[t].v.template[Len(ret[t].v.template)] = TrailingWs(doc[t])

\* C2: whenever parse returns, the root has one fragment more than it has
\* entries, and parse("") returns no entry and the one fragment "".
C2_TemplateLength ==
    \A t \in Threads :
        (pc[t] = "returned" /\ ret[t].st = "ok") =>
            /\ Len(ret[t].v.template) = Len(ret[t].v.body) + 1
            /\ doc[t] = <<>> => (ret[t].v.body = <<>> /\ ret[t].v.template = << <<>> >>)

\* parse has returned a root of two entries, with whitespace between them
C2_Witness ==
    /\ pc["t1"] = "returned"
    /\ ret["t1"].st = "ok"
    /\ Len(ret["t1"].v.body) = 2
    /\ ret["t1"].v.template[2] # <<>>

\* C4: a parse that runs out of input ends with the parser's own ParserError,
\* never with an IndexError from an access past the end of the cursor.
C4_NoIndexError ==
    \A t \in Threads : pc[t] = "raised" => ret[t].st # "IndexError"

(***************************************************************************)
(* get_ws called on a cursor: SpecWs.                                      *)
(***************************************************************************)
\* the state in which thread t1 is about to call a method of Parser p1 whose
\* cursor is c, with l in its local variables
Start(c, l) ==
    /\ parser = [p \in Parsers |-> [content |-> IF p = "p1" THEN c ELSE <<>>, parse_strings |-> TRUE]]
    /\ instance = [t \in Threads |-> IF t = "t1" THEN "p1" ELSE "p2"]
    /\ pc = [t \in Threads |-> IF t = "t1" THEN "call" ELSE "off"]
    /\ local = [t \in Threads |-> IF t = "t1" THEN l ELSE None]
    /\ ret = [t \in Threads |-> NoResult]
    /\ doc = [t \in Threads |-> IF t = "t1" THEN c ELSE <<>>]

MaxWsLen == 4

WsPieces == {<<" ">>, <<"\n">>, <<"\t">>, <<"a">>, <<"<">>}

InitWs == \E c \in Texts(WsPieces, MaxWsLen) : Start(c, None)

\* self.get_ws()
CallGetWs(t) ==
    /\ pc[t] = "call"
    /\ End(t, get_ws(parser[instance[t]]), "returned")
    /\ UNCHANGED <<instance, local, doc>>

NextWs == CallGetWs("t1")

SpecWs == InitWs /\ [][NextWs]_vars

\* C3: get_ws never raises; what it returns followed by the cursor it leaves
\* is the cursor it was called on; the cursor it leaves is empty or starts
\* with a character that is not whitespace; and on a cursor that is empty or
\* starts with such a character it returns '' and leaves the cursor alone.
C3_GetWs ==
    pc["t1"] = "returned" =>
        /\ ret["t1"].st = "ok"
        /\ ret["t1"].v \o parser["p1"].content = doc["t1"]
        /\ parser["p1"].content = <<>> \/ parser["p1"].content[1] \notin wschars
        /\ (doc["t1"] = <<>> \/ doc["t1"][1] \notin wschars) =>
               (ret["t1"].v = <<>> /\ parser["p1"].content = doc["t1"])

(***************************************************************************)
(* get_expression, get_property_expression and get_attr_expression called  *)
(* on a cursor: SpecExpr.                                                  *)
(***************************************************************************)
MaxOps == 2

Operands == {"a", "b", "2"}

BinaryOps == {"+", "-", "%", "*", "/"}

Spacing == {<<>>, <<" ">>}

\* x[1] g[1] x[2] ... g[k] x[k+1], with sp around every operator
RECURSIVE ChainText(_, _, _, _)
ChainText(x, g, k, sp) ==
    IF k = 0 THEN <<x[1]>>
    ELSE ChainText(x, g, k - 1, sp) \o sp \o <<g[k]>> \o sp \o <<x[k + 1]>>

\* the expressions of at most MaxOps binary operators, each followed by "]"
ChainTexts ==
    UNION {{ChainText(x, g, k, sp) \o <<"]">> :
               x \in [1..(k + 1) -> Operands], g \in [1..k -> BinaryOps], sp \in Spacing} :
           k \in 0..MaxOps}

\* the cursors a computed access starts from: the bracket named open, an
\* operand, the character that follows it, and what follows that
AccessTexts(open) ==
    {open \o sp1 \o <<x>> \o sp2 \o <<c>> \o tail :
        sp1 \in Spacing, x \in {"b", "2"}, sp2 \in Spacing,
        c \in {"]", ")", "}", ","}, tail \in {<<>>, <<"]">>}}

\* the idref a computed access is applied to
Idref == [type |-> "Identifier", name |-> <<"a">>]

InitExpr ==
    \/ \E c \in ChainTexts : Start(c, None)
    \/ \E c \in AccessTexts(<<"[">>) \cup AccessTexts(<<"[", ".">>) : Start(c, Idref)

\* self.get_expression()
CallGetExpression(t) ==
    /\ pc[t] = "call"
    /\ local[t] = None
    /\ End(t, get_expression(parser[instance[t]]), "returned")
    /\ UNCHANGED <<instance, local, doc>>

\* self.get_property_expression(idref), called as get_member_expression calls it
CallGetPropertyExpression(t) ==
    /\ pc[t] = "call"
    /\ local[t] # None
    /\ Slice(parser[instance[t]].content, 0, 2) # <<"[", ".">>
    /\ End(t, get_property_expression(parser[instance[t]], local[t]), "returned")
    /\ UNCHANGED <<instance, local, doc>>

\* self.get_attr_expression(idref), called as get_member_expression calls it
CallGetAttrExpression(t) ==
    /\ pc[t] = "call"
    /\ local[t] # None
    /\ Slice(parser[instance[t]].content, 0, 2) = <<"[", ".">>
    /\ End(t, get_attr_expression(parser[instance[t]], local[t]), "returned")
    /\ UNCHANGED <<instance, local, doc>>

NextExpr == CallGetExpression("t1") \/ CallGetPropertyExpression("t1") \/ CallGetAttrExpression("t1")

SpecExpr == InitExpr /\ [][NextExpr]_vars

(***************************************************************************)
(* What an expression's text means, read off the text alone: its tokens    *)
(* and the tree that the levels of the binary operators give it.           *)
(***************************************************************************)
NotSpace(c) == c # " "

\* the operands and operators of a text of ChainTexts, in order
Tokens(s) == SubSeq(SelectSeq(s, NotSpace), 1, Len(SelectSeq(s, NotSpace)) - 1)

\* how tightly a binary operator binds: + and - loosest, then %, then *, then /
Level(o) == CASE o \in {"+", "-"} -> 1 [] o = "%" -> 2 [] o = "*" -> 3 [] o = "/" -> 4

Leaf(x) ==
    IF x \in digits THEN [type |-> "Literal", value |-> DigitValue(x)]
    ELSE [type |-> "Identifier", name |-> <<x>>]

\* where toks splits: at the last of its loosest operators
SplitAt(toks) ==
    CHOOSE i \in 1..Len(toks) :
        /\ i % 2 = 0
        /\ \A j \in 1..Len(toks) :
               j % 2 = 0 => \/ Level(toks[j]) > Level(toks[i])
                            \/ Level(toks[j]) = Level(toks[i]) /\ j <= i

\* the tree of toks: looser operators above tighter ones, and operators of
\* one level grouped from the left
RECURSIVE Grouping(_)
Grouping(toks) ==
    IF Len(toks) = 1 THEN Leaf(toks[1])
    ELSE [type |-> "BinaryExpression",
          operator |-> [type |-> "BinaryOperator", token |-> <<toks[SplitAt(toks)]>>],
          left |-> Grouping(SubSeq(toks, 1, SplitAt(toks) - 1)),
          right |-> Grouping(SubSeq(toks, SplitAt(toks) + 1, Len(toks)))]

(***************************************************************************)
(* Properties of the expression productions, under SpecExpr.               *)
(***************************************************************************)
\* C6: get_expression groups the binary operators by the chain (+, -) looser
\* than % looser than * looser than /, each level from the left: it returns
\* the tree Grouping gives the operands and operators it was called on, and
\* leaves the cursor at what follows them.
C6_Precedence ==
    (pc["t1"] # "call" /\ local["t1"] = None) =>
        /\ ret["t1"].st = "ok"
        /\ ret["t1"].v = Grouping(Tokens(doc["t1"]))
        /\ parser["p1"].content = <<"]">>

\* a + b % c has been parsed, as a + (b % c)
C6_Witness ==
    /\ pc["t1"] = "returned"
    /\ doc["t1"] = <<"a", " ", "+", " ", "b", " ", "%", " ", "2", "]">>
    /\ ret["t1"].v.operator.token = <<"+">>
    /\ ret["t1"].v.right.type = "BinaryExpression"
    /\ ret["t1"].v.right.operator.token = <<"%">>

\* what follows the operand of a computed access whose bracket is n characters
AfterOperand(s, n) == lstrip(Drop(lstrip(Drop(s, n)), 1))

\* C9: a computed access [expr] or [.expr] whose expression is followed by a
\* character other than "]" raises ParserError, and leaves that character on
\* the cursor.
C9_ClosingBracket ==
    (pc["t1"] # "call" /\ local["t1"] # None
        /\ AfterOperand(doc["t1"], IF doc["t1"][2] = "." THEN 2 ELSE 1)[1] # "]") =>
        /\ ret["t1"].st = "ParserError"
        /\ parser["p1"].content = AfterOperand(doc["t1"], IF doc["t1"][2] = "." THEN 2 ELSE 1)

(***************************************************************************)
(* get_entity called on a cursor: SpecEntity.  The caller keeps in its     *)
(* local variables the arguments id and index and the parts the cursor is  *)
(* made of: whitespace ws1, a value (or nothing), whitespace ws2, and what *)
(* follows.                                                                *)
(***************************************************************************)
MaxWsRun == 2

WsRuns == Texts({<<" ">>, <<"\n">>}, MaxWsRun)

ValueTexts == {<<>>, <<"\"", "x", "\"">>, <<"[", "]">>}

TailTexts == {<<>>, <<">">>, <<">", "<">>, <<"b", ":", "'", "y", "'", ">">>, <<"b">>}

Indexes == {None, List(<<[type |-> "Literal", value |-> 1]>>)}

\* with no value between them, ws1 and ws2 would be one run: ws2 is empty then
EntityInputs ==
    {i \in [ws1 : WsRuns, value : ValueTexts, ws2 : WsRuns, tail : TailTexts,
            id : {Idref}, index : Indexes] :
        i.value = <<>> => i.ws2 = <<>>}

InitEntity == \E i \in EntityInputs : Start(i.ws1 \o i.value \o i.ws2 \o i.tail, i)

\* self.get_entity(id, index)
CallGetEntity(t) ==
    /\ pc[t] = "call"
    /\ End(t, get_entity(parser[instance[t]], local[t].id, local[t].index), "returned")
    /\ UNCHANGED <<instance, local, doc>>

NextEntity == CallGetEntity("t1")

SpecEntity == InitEntity /\ [][NextEntity]_vars

\* the text after ws1: the value, ws2 and what follows
AfterWs1(i) == i.value \o i.ws2 \o i.tail

\* C10: called after the identifier (and index), get_entity
\*  - returns an entity with no value and no attributes, whose template holds
\*    the whitespace run ws1, when ">" is the next character that is not
\*    whitespace;
\*  - raises ParserError when another character follows with no whitespace
\*    before it;
\*  - and, when it returns an entity in the remaining case, the entity's
\*    template holds the runs ws1 and ws2 (before and after the value).
C10_EntityCases ==
    (pc["t1"] # "call" /\ AfterWs1(local["t1"]) # <<>>) =>
        IF AfterWs1(local["t1"])[1] = ">"
        THEN /\ ret["t1"].st = "ok"
             /\ ret["t1"].v.value = None
             /\ ret["t1"].v.attrs = None
             /\ ret["t1"].v.template =
                    <<"<", "%", "s">> \o local["t1"].ws1 \o <<"%", "s", "%", "s", "%", "s", ">">>
        ELSE IF local["t1"].ws1 = <<>>
        THEN ret["t1"].st = "ParserError"
        ELSE ret["t1"].st = "ok" =>
                 ret["t1"].v.template =
                     <<"<", "%", "s", "%", "s">> \o local["t1"].ws1 \o <<"%", "s">>
                         \o local["t1"].ws2 \o <<"%", "s", ">">>

\* an entity with a value and attributes has been returned, with whitespace
\* on both sides of the value
C10_Witness ==
    /\ pc["t1"] = "returned"
    /\ local["t1"].ws1 = <<"\n", " ">>
    /\ local["t1"].ws2 = <<" ">>
    /\ ret["t1"].v.value.type = "String"
    /\ ret["t1"].v.attrs.type = "list"

(***************************************************************************)
(* get_complex_string, step by step, called on a cursor that starts with a *)
(* quote (as get_value calls it): SpecStr.  local[t] holds str_end and obj.*)
(***************************************************************************)
MaxStrPieces == 3

StrPieces == {<<"x">>, <<"{">>, <<"{", "{", "a", "}", "}">>, <<"\"">>, <<"'">>}

StrTexts == {<<q>> \o s : q \in {"\"", "'"}, s \in Texts(StrPieces, MaxStrPieces)}

InitStr == \E c \in StrTexts : Start(c, None)

\* lines 145-148
ComplexString(t) ==
    /\ pc[t] = "call"
    /\ parser[instance[t]].content # <<>>
    /\ parser' = [parser EXCEPT ![instance[t]] = Advance(@, 1)]
    /\ local' = [local EXCEPT ![t] = [str_end |-> parser[instance[t]].content[1], obj |-> <<>>]]
    /\ pc' = [pc EXCEPT ![t] = "while"]
    /\ UNCHANGED <<instance, ret, doc>>

\* line 149, the test of the while loop: self.content[0] raises IndexError
\* when nothing is left
ComplexStringWhile(t) ==
    /\ pc[t] = "while"
    /\ IF parser[instance[t]].content = <<>>
       THEN End(t, Raise("IndexError", parser[instance[t]]), "returned")
       ELSE /\ pc' = [pc EXCEPT ![t] = IF parser[instance[t]].content[1] # local[t].str_end
                                       THEN "body" ELSE "endwhile"]
            /\ UNCHANGED <<parser, ret>>
    /\ UNCHANGED <<instance, local, doc>>

\* lines 152-162, one iteration: it goes back to the test, or raises
ComplexStringBody(t) ==
    /\ pc[t] = "body"
    /\ LET r == complex_string_body(parser[instance[t]], local[t].obj, local[t].str_end)
       IN  IF r.st = "ok"
           THEN /\ parser' = [parser EXCEPT ![instance[t]] = r.self]
                /\ local' = [local EXCEPT ![t].obj = r.v]
                /\ pc' = [pc EXCEPT ![t] = "while"]
                /\ UNCHANGED ret
           ELSE /\ End(t, r, "returned")
                /\ UNCHANGED local
    /\ UNCHANGED <<instance, doc>>

\* lines 163-166
ComplexStringReturn(t) ==
    /\ pc[t] = "endwhile"
    /\ End(t, complex_string_result(parser[instance[t]], local[t].obj), "returned")
    /\ UNCHANGED <<instance, local, doc>>

NextStr ==
    \/ ComplexString("t1")
    \/ ComplexStringWhile("t1")
    \/ ComplexStringBody("t1")
    \/ ComplexStringReturn("t1")

SpecStr == InitStr /\ [][NextStr]_vars

\* C5: a quoted string with no {{ in it parses to a String node that holds
\* the text between the quotes, and a ComplexString that is returned has a
\* segment that is an expression (not a String).
C5_PlainString ==
    pc["t1"] = "returned" =>
        /\ find(doc["t1"], <<"{", "{">>, 0) = -1 =>
               /\ ret["t1"].v.type = "String"
               /\ ret["t1"].v.content =
                      SubSeq(doc["t1"], 2, Len(doc["t1"]) - Len(parser["p1"].content) - 1)
        /\ ret["t1"].v.type = "ComplexString" =>
               \E i \in 1..Len(ret["t1"].v.items) : ret["t1"].v.items[i].type # "String"

\* C8: every iteration of the loop of get_complex_string that goes back to
\* the loop's test has consumed at least one character of the cursor (so
\* that the loop, and parse, end).
C8_Progress ==
    [][\A t \in Threads :
           (pc[t] = "body" /\ pc'[t] = "while") =>
               Len(parser'[instance[t]].content) < Len(parser[instance[t]].content)]_vars

(***************************************************************************)
(* Two threads that call parse, on the same Parser object or on two:       *)
(* SpecConc.                                                               *)
(***************************************************************************)
MaxConcPieces == 2

ConcPieces == {<<"<", "a", ">">>, <<"<", "a">>, <<" ">>, <<"/", "*", "*", "/">>}

ConcDocs == Texts(ConcPieces, MaxConcPieces)

InitConc ==
    /\ parser = [p \in Parsers |-> NewParser]
    /\ instance \in [Threads -> Parsers]
    /\ pc = [t \in Threads |-> "idle"]
    /\ local = [t \in Threads |-> None]
    /\ ret = [t \in Threads |-> NoResult]
    /\ doc \in [Threads -> ConcDocs]

NextConc == \E t \in Threads : ParseNext(t)

SpecConc == InitConc /\ [][NextConc]_vars

\* C7: a call of parse that other calls of parse interleave with ends as it
\* ends when it runs alone: with the same root, or the same exception.
C7_Isolation ==
    \A t \in Threads :
        pc[t] \in {"returned", "raised"} =>
            /\ ret[t].st = parse(NewParser, doc[t]).st
            /\ ret[t].v = parse(NewParser, doc[t]).v
====
